---------------------------- MODULE Spec2Model ----------------------------
(***************************************************************************)
(* State-machine model of the real-time synchronization layer of the       *)
(* server panel frontend:                                                  *)
(*   - usePolling   (frontend/src/composables/usePolling.ts)               *)
(*   - useWebSocket (the channel manager composable)                       *)
(*   - MainLayout   (frontend/src/layouts/MainLayout.vue) with the server  *)
(*                  store (frontend/src/stores/server.ts)                  *)
(*   - the map view (pan, zoom and player markers of the map canvas)       *)
(*   - the console page (its socket, reconnect timer, command buttons)     *)
(*   - the home page (frontend/src/views/HomePage.vue): the polling of    *)
(*                  the provisioning log                                   *)
(* Each instance is modelled with its closure variables, its reactive      *)
(* refs, and the browser objects it creates (interval timers, timeouts,    *)
(* WebSocket objects, promises of requests in flight).                     *)
(***************************************************************************)
EXTENDS Integers, Sequences, FiniteSets, TLC

\* ------------------------------------------------------------------------
\* Bounds of the model
\* ------------------------------------------------------------------------
MaxFetches == 4        \* fetchFn invocations explored per behaviour
MaxIntervals == 2      \* interval-timer handles the browser may hand out
MaxSocks == 2          \* WebSocket objects alive at once
MaxTimeouts == 2       \* reconnect timeouts pending at once
MaxMsgs == 2           \* length of messages
TickMs == 3000         \* granularity of the clock, in ms
MaxStatusReqs == 3     \* status requests explored per behaviour
MaxMapOps == 3         \* user operations on the map explored per behaviour
MaxCmds == 2           \* server command requests outstanding at once
MaxLogReqs == 2        \* provision-status requests in flight at once

\* ------------------------------------------------------------------------
\* Values
\* ------------------------------------------------------------------------
NULL == "null"
Values == {"v1", "v2"}                 \* values fetchFn may resolve with
ErrMessages == {"timeout"}             \* err.message of a thrown Error
NoFetch == [seq |-> 0, by |-> "none"]  \* data = null: no fetch wrote it
PollingErrorText == "Polling error"    \* message used for a non-Error throw
NoTimer == 0                           \* timer = null
IntervalIds == 1..MaxIntervals
ReconnectDelay == 3000                 \* setTimeout(connect, 3000)
WsErrorText == "WebSocket error"       \* error set by ws.onerror
Payloads == {"A", "B"}                 \* payloads of messages, both ways
NoSock == "none"                       \* ws = null
OrphanStates == {"connecting", "open", "closing"}  \* readyState of a socket
                                       \* that can still fire an event
Who == {"current", "other"}            \* the socket `ws` refers to, or
                                       \* another socket of the instance
NoHandle == [st |-> "null", rem |-> 0]     \* reconnectTimer = null
FiredHandle == [st |-> "fired", rem |-> 0] \* handle of a timeout that fired
\* handle of a pending timeout with r ms left
PendingHandle(r) == [st |-> "pending", rem |-> r]
NoServer == ""                         \* serverStore.activeServerId ?? ''
Servers == {"s1", "s2"}                \* ids of the servers of the panel
SavedIds == {NoServer, "s1", "old"}    \* localStorage 'active_server_id'
ServerLists == {<<>>, <<"s1", "s2">>}  \* what GET /servers may answer
StatusTimerId == 1                     \* handle of the status interval
NoImage == <<0, 0>>                    \* mapImage = null
Images == {<<1600, 1600>>, <<4000, 4000>>}  \* width, height of the map image
Surfaces == {<<800, 600>>, <<400, 300>>}    \* clientWidth, clientHeight of
                                            \* the parent of the canvas
DefaultCanvas == <<300, 150>>          \* size of a canvas nobody has sized
Points == {<<0, 0>>, <<400, 300>>}     \* pointer positions of mouse events
WorldSizes == {4000, 3000}             \* worldSize of GET /map
DefaultWorldSize == 4000               \* ref(4000)
PlayerLists ==                         \* players of GET /positions
    { <<>>,
      << <<0, 0>>, <<-2000, 2000>> >>,
      << <<1000, -500>>, <<1000, 500>> >> }
NoConn == [st |-> "none", target |-> NoServer, onclose |-> FALSE]  \* ws = null
Endpoints == {"/start", "/stop"}       \* cmd.endpoint of serverCommands
Statuses == {"provisioning", "ready", "error"}  \* provisioning status
NoStatus == ""                         \* logStatus = ref('')
NoPoint == <<>>                        \* the step was not a mouse event
NoDrag == [p |-> NoPoint, panX |-> 0, panY |-> 0]  \* no drag in progress

\* ========================================================================
\* usePolling
\* ========================================================================
VARIABLES
    data,        \* data.value
    loading,     \* loading.value
    error,       \* error.value
    timer,       \* closure variable `timer` (NoTimer or an interval handle)
    active,      \* closure variable `active`
    intervals,   \* interval timers alive in the browser (setInterval handles)
    inflight,    \* poll() invocations suspended at `await fetchFn()`
    nextSeq,     \* number of fetchFn invocations so far
    pMounted,    \* the owning component has not been unmounted
    pOp,         \* the operation performed by the last step
    pVal,        \* the value or message delivered by the last settled fetch
    dataFrom,    \* the poll() invocation whose result data.value holds
    pEscaped     \* an exception or a rejection has left the engine

\* useWebSocket (declared here, defined below)
VARIABLES
    ws,               \* closure variable `ws`: NoSock, or the readyState
                      \* of the socket it refers to
    orphans,          \* per readyState, the number of sockets the instance
                      \* made, no longer refers to, and that are not closed
    reconnectTimer,   \* closure variable `reconnectTimer`: NoHandle, or the
                      \* handle of a timeout that is pending or has fired
    leaked,           \* time left of the pending timeouts that
                      \* reconnectTimer does not hold the handle of
    intentionalClose, \* closure variable `intentionalClose`
    connected,        \* connected.value
    wsError,          \* error.value
    messages,         \* messages.value
    wSent,            \* the payload the last step handed to ws.send(), if any
    wRecv,            \* the payload of the message event of the last step
    wMounted,         \* the owning component has not been unmounted
    wOp,              \* the operation performed by the last step
    sinceDrop,        \* ms since the current connection last closed
                      \* unexpectedly (saturating at ReconnectDelay)
    dropped,          \* the current connection closed unexpectedly and
                      \* neither a reopening nor a caller's call followed
    disconnected      \* disconnect() was called and connect() was not
                      \* called by the caller since

\* MainLayout and the server store (declared here, defined below)
VARIABLES
    activeServerId,   \* serverStore.activeServerId (NoServer for null, and
                      \* before the store exists)
    servers,          \* serverStore.servers
    serverInfo,       \* serverInfo.value: NULL, or the status of that server
    statusTimer,      \* closure variable `statusTimer`
    statusIntervals,  \* status interval timers alive in the browser
    statusReqs,       \* GET /status requests in flight, with their target
    nStatus,          \* number of status requests made so far
    layoutPhase,      \* "setup", "fetching" (onMounted awaits fetchServers())
                      \* or "ready"
    layoutUnmounted,  \* onUnmounted has run
    lOp               \* the operation performed by the last step

lvars == <<activeServerId, servers, serverInfo, statusTimer, statusIntervals,
           statusReqs, nStatus, layoutPhase, layoutUnmounted, lOp>>

\* The map view (declared here, defined below)
VARIABLES
    zoom,         \* zoom.value, an exact fraction
    panX,         \* panX.value
    panY,         \* panY.value
    isDragging,   \* closure variable `isDragging`
    dragStartX,   \* closure variable `dragStartX`
    dragStartY,   \* closure variable `dragStartY`
    mapImage,     \* closure variable `mapImage`: NoImage or its size
    container,    \* size of canvas.parentElement
    canvasSize,   \* canvas.width, canvas.height
    canvasRef,    \* canvasRef.value is set: the canvas is rendered
    mapLoading,   \* loading.value
    mapError,     \* mapError.value is not empty
    worldSize,    \* worldSize.value
    players,      \* players.value: the world position <<x, z>> of each
    mapOps,       \* number of user operations so far
    mOp,          \* the operation performed by the last step
    mPtr,         \* where the pointer was in it, for a mouse event
    downAt        \* the pointer and the pan at the mousedown of the drag

mvars == <<zoom, panX, panY, isDragging, dragStartX, dragStartY, mapImage,
           container, canvasSize, canvasRef, mapLoading, mapError, mapOps,
           mOp, mPtr, downAt, worldSize, players>>

\* The console page (declared here, defined below)
VARIABLES
    cPhase,          \* "init", "mounted" or "unmounted"
    cWs,             \* closure variable `ws`: the socket it refers to
    cOld,            \* sockets `ws` referred to once, not closed yet
    cTimer,          \* closure variable `reconnectTimer`
    cLeaked,         \* pending timeouts no variable refers to
    runningCommand,  \* runningCommand.value
    cmdOut,          \* endpoints of the command requests outstanding
    cOp,             \* the operation performed by the last step
    cSent            \* the endpoint it posted to, or NULL

cvars == <<cPhase, cWs, cOld, cTimer, cLeaked, runningCommand, cmdOut, cOp,
           cSent>>

\* The home page: the provisioning log (declared here, defined below)
VARIABLES
    logTarget,     \* logTarget.value: NULL or the id of the server
    logStatus,     \* logStatus.value
    logPollTimer,  \* closure variable `logPollTimer`
    logIntervals,  \* log interval timers alive in the browser
    logReqs,       \* requests in flight: those openLogs() awaits, and
                   \* those an interval tick made
    hMounted       \* the page has not been unmounted

hvars == <<logTarget, logStatus, logPollTimer, logIntervals, logReqs,
           hMounted>>

wvars == <<ws, orphans, reconnectTimer, leaked, intentionalClose, connected,
           wsError, messages, wSent, wRecv, wMounted, wOp, sinceDrop,
           dropped, disconnected>>

pvars == <<data, loading, error, timer, active, intervals, inflight, nextSeq,
           pMounted, pOp, pVal, dataFrom, pEscaped>>

vars == <<pvars, wvars, lvars, mvars, cvars, hvars>>

\* A step of usePolling leaves every other component alone.
OnlyPoll == UNCHANGED <<wvars, lvars, mvars, cvars, hvars>>
\* A step of useWebSocket leaves every other component alone.
OnlyWs == UNCHANGED <<pvars, lvars, mvars, cvars, hvars>>
\* A step of MainLayout leaves every other component alone.
OnlyLayout == UNCHANGED <<pvars, wvars, mvars, cvars, hvars>>
\* A step of the map view leaves every other component alone.
OnlyMap == UNCHANGED <<pvars, wvars, lvars, cvars, hvars>>
\* A step of the home page leaves every other component alone.
OnlyHome == UNCHANGED <<pvars, wvars, lvars, mvars, cvars>>
\* A step of the console page leaves every other component alone, but for
\* the active server of the store.
OnlyConsole ==
    UNCHANGED <<pvars, wvars, mvars, hvars, servers, serverInfo, statusTimer,
                statusIntervals, statusReqs, nStatus, layoutPhase,
                layoutUnmounted, lOp>>
\* A step other than send() hands nothing to ws.send().
NoSend == wSent' = NULL
\* A step other than a message event receives nothing.
NoRecv == wRecv' = NULL

PollInit ==
    /\ data = NULL
    /\ loading = FALSE
    /\ error = NULL
    /\ timer = NoTimer
    /\ active = FALSE
    /\ intervals = {}
    /\ inflight = {}
    /\ nextSeq = 0
    /\ pMounted = TRUE
    /\ pOp = "init"
    /\ pVal = NULL
    /\ dataFrom = NoFetch
    /\ pEscaped = FALSE

\* The handle setInterval returns: one that is not alive.
FreshInterval(ivs) == CHOOSE t \in IntervalIds \ ivs : \A u \in IntervalIds \ ivs : t <= u

\* What poll() writes when fetchFn() rejects with message m: lines 19-24.
RejectWritesDropData(m) == error' = m /\ data' = NULL
RejectWrites(m) == error' = m /\ UNCHANGED data

\* `finally { loading.value = false }`
Finally == loading' = FALSE

\* The messages the catch clause can produce: err.message of an Error, or
\* the fixed text for anything else that was thrown.
Thrown == ErrMessages \cup {PollingErrorText}

\* Whether the catch clause lets the failure with message m out of poll():
\* it has no throw, and neither has the finally clause.
CatchRethrowsNonError(m) == m = PollingErrorText
CatchRethrows(m) == FALSE

\* poll() up to its suspension at `await fetchFn()`: loading.value = true and
\* fetchFn() is invoked; poll() has no guard of its own. Either fetchFn()
\* returns its promise and poll() suspends, or fetchFn() throws right away,
\* inside the try block, and the catch and finally clauses run at once.
PollBegin(by) ==
    /\ nextSeq' = nextSeq + 1
    /\ \/ /\ loading' = TRUE
          /\ inflight' = inflight \cup {[seq |-> nextSeq + 1, by |-> by]}
          /\ UNCHANGED <<data, error, pVal, dataFrom, pEscaped>>
       \/ \E m \in Thrown :
             /\ RejectWrites(m)
             /\ Finally
             /\ pVal' = m
             /\ pEscaped' = (pEscaped \/ CatchRethrows(m))
             /\ UNCHANGED <<inflight, dataFrom>>

\* `if (active) return` of start().
StartNeverNoop == FALSE
StartIsNoop == active

\* clearInterval(timer) of stop(): the intervals left alive.
ClearedLeak(tm, ivs) == ivs
Cleared(tm, ivs) == IF tm # NoTimer THEN ivs \ {tm} ELSE ivs

\* start()
Start ==
    /\ OnlyPoll
    /\ pMounted
    /\ pOp' = "start"
    /\ IF StartIsNoop
       THEN UNCHANGED <<data, loading, error, timer, active, intervals,
                        inflight, nextSeq, pMounted, pVal, dataFrom,
                        pEscaped>>
       ELSE /\ nextSeq < MaxFetches
            /\ intervals # IntervalIds
            /\ active' = TRUE
            /\ PollBegin("start")
            /\ timer' = FreshInterval(intervals)
            /\ intervals' = intervals \cup {FreshInterval(intervals)}
            /\ UNCHANGED pMounted

\* stop()
Stop ==
    /\ OnlyPoll
    /\ pMounted
    /\ pOp' = "stop"
    /\ active' = FALSE
    /\ intervals' = Cleared(timer, intervals)
    /\ timer' = NoTimer
    /\ UNCHANGED <<data, loading, error, inflight, nextSeq, pMounted, pVal,
                   dataFrom, pEscaped>>

\* restart(): stop() immediately followed by start(); start() finds
\* active = false, so it always polls and creates a timer.
Restart ==
    /\ OnlyPoll
    /\ pMounted
    /\ nextSeq < MaxFetches
    /\ Cleared(timer, intervals) # IntervalIds
    /\ pOp' = "restart"
    /\ active' = TRUE
    /\ PollBegin("start")
    /\ timer' = FreshInterval(Cleared(timer, intervals))
    /\ intervals' = Cleared(timer, intervals)
                      \cup {FreshInterval(Cleared(timer, intervals))}
    /\ UNCHANGED pMounted

\* The caller invokes the returned poll() directly.
CallPoll ==
    /\ OnlyPoll
    /\ pMounted
    /\ nextSeq < MaxFetches
    /\ pOp' = "poll"
    /\ PollBegin("poll")
    /\ UNCHANGED <<timer, active, intervals, pMounted>>

\* An interval timer that is alive fires: setInterval(poll, intervalMs).
IntervalTick ==
    /\ OnlyPoll
    /\ \E t \in intervals : TRUE
    /\ nextSeq < MaxFetches
    /\ pOp' = "tick"
    /\ PollBegin("tick")
    /\ UNCHANGED <<timer, active, intervals, pMounted>>

\* What poll() writes when fetchFn() resolves with v: lines 17-18.
ResolveWrites(v) == data' = v /\ error' = NULL

\* fetchFn() of poll invocation f resolves.
PollResolve ==
    \E f \in inflight, v \in Values :
        /\ OnlyPoll
        /\ pOp' = "resolve"
        /\ pVal' = v
        /\ ResolveWrites(v)
        /\ Finally
        /\ dataFrom' = f
        /\ inflight' = inflight \ {f}
        /\ UNCHANGED <<timer, active, intervals, nextSeq, pMounted, pEscaped>>

\* fetchFn() of poll invocation f rejects, with an Error or with anything else.
PollReject ==
    \E f \in inflight, m \in Thrown :
        /\ OnlyPoll
        /\ pOp' = "reject"
        /\ pVal' = m
        /\ RejectWrites(m)
        /\ Finally
        /\ pEscaped' = (pEscaped \/ CatchRethrows(m))
        /\ inflight' = inflight \ {f}
        /\ UNCHANGED <<timer, active, intervals, nextSeq, pMounted, dataFrom>>

\* onUnmounted(() => stop())
PollUnmount ==
    /\ OnlyPoll
    /\ pMounted
    /\ pMounted' = FALSE
    /\ pOp' = "unmount"
    /\ active' = FALSE
    /\ intervals' = Cleared(timer, intervals)
    /\ timer' = NoTimer
    /\ UNCHANGED <<data, loading, error, inflight, nextSeq, pVal, dataFrom,
                   pEscaped>>

PollNext ==
    \/ Start
    \/ Stop
    \/ Restart
    \/ CallPoll
    \/ IntervalTick
    \/ PollResolve
    \/ PollReject
    \/ PollUnmount




\* ========================================================================
\* useWebSocket
\* ========================================================================
\* The WebSocket objects of an instance are told apart only by whether `ws`
\* refers to them: `ws` is modelled by the readyState of the socket it
\* refers to, and the sockets it no longer refers to - which keep their
\* handlers - are counted per readyState. Likewise a timeout is either the
\* one `reconnectTimer` holds the handle of, or one of the others.
WsInit ==
    /\ ws = NoSock
    /\ orphans = [st \in OrphanStates |-> 0]
    /\ reconnectTimer = NoHandle
    /\ leaked = <<>>
    /\ intentionalClose = FALSE
    /\ connected = FALSE
    /\ wsError = NULL
    /\ messages = <<>>
    /\ wSent = NULL
    /\ wRecv = NULL
    /\ wMounted = TRUE
    /\ wOp = "init"
    /\ sinceDrop = ReconnectDelay
    /\ dropped = FALSE
    /\ disconnected = FALSE

Min(a, b) == IF a <= b THEN a ELSE b
Max(a, b) == IF a >= b THEN a ELSE b

\* Sockets of the instance that can still fire an event.
OrphanCount == orphans["connecting"] + orphans["open"] + orphans["closing"]
SockCount == OrphanCount + (IF ws \in {"connecting", "open"} THEN 1 ELSE 0)

\* Timeouts pending in the browser.
PendingCount == Len(leaked) + (IF reconnectTimer.st = "pending" THEN 1 ELSE 0)

\* The sockets left behind when `ws`, referring to a socket in state st, is
\* overwritten: a closed socket, firing no more event, is garbage.
Orphaned(o, st) == IF st \in OrphanStates THEN [o EXCEPT ![st] = @ + 1] ELSE o

\* The pending timeouts left behind when reconnectTimer, holding h, is
\* overwritten without clearTimeout; kept in the order of their time left.
Leak(lk, h) ==
    IF h.st = "pending"
    THEN LET k == Cardinality({i \in 1..Len(lk) : lk[i] <= h.rem})
         IN  SubSeq(lk, 1, k) \o <<h.rem>> \o SubSeq(lk, k + 1, Len(lk))
    ELSE lk

\* `if (ws && ws.readyState === WebSocket.OPEN) return` of connect().
ConnectIsNoop == ws = "open"

\* connect(): the body shared by the caller's call and the reconnect timer.
\* Nothing but `ws` is written: the previous socket keeps its handlers and
\* is not closed, reconnectTimer and intentionalClose are left as they are.
ConnectBody ==
    IF ConnectIsNoop
    THEN UNCHANGED <<ws, orphans>>
    ELSE /\ SockCount < MaxSocks
         /\ ws' = "connecting"
         /\ orphans' = Orphaned(orphans, ws)

\* connect() and the handlers it installs leave messages.value alone when
\* a connection is made or made again.
ConnectClearsMessages == messages' = <<>>
ConnectKeepsMessages == UNCHANGED messages

\* The caller calls connect().
Connect ==
    /\ OnlyWs
    /\ wMounted
    /\ wOp' = "connect"
    /\ NoSend
    /\ NoRecv
    /\ ConnectBody
    /\ dropped' = FALSE
    /\ disconnected' = FALSE
    /\ ConnectKeepsMessages
    /\ UNCHANGED <<reconnectTimer, leaked, intentionalClose, connected,
                   wsError, wMounted, sinceDrop>>

\* A reconnect timeout whose delay has elapsed fires - the one whose handle
\* reconnectTimer holds, or another one: connect() runs.
TimerFire ==
    \E which \in {"held", "other"} :
        /\ OnlyWs
        /\ IF which = "held"
           THEN /\ reconnectTimer = PendingHandle(0)
                /\ reconnectTimer' = FiredHandle
                /\ UNCHANGED leaked
           ELSE /\ leaked # <<>>
                /\ Head(leaked) = 0
                /\ leaked' = Tail(leaked)
                /\ UNCHANGED reconnectTimer
        /\ wOp' = "timer"
        /\ NoSend
        /\ NoRecv
        /\ ConnectBody
        /\ ConnectKeepsMessages
        /\ UNCHANGED <<intentionalClose, connected, wsError, wMounted,
                       sinceDrop, dropped, disconnected>>

\* Time passes.
Tick ==
    /\ OnlyWs
    /\ wOp' = "tick"
    /\ NoSend
    /\ NoRecv
    /\ reconnectTimer' = IF reconnectTimer.st = "pending"
                         THEN PendingHandle(Max(reconnectTimer.rem - TickMs, 0))
                         ELSE reconnectTimer
    /\ leaked' = [i \in 1..Len(leaked) |-> Max(leaked[i] - TickMs, 0)]
    /\ sinceDrop' = Min(sinceDrop + TickMs, ReconnectDelay)
    /\ UNCHANGED <<ws, orphans, intentionalClose, connected, wsError,
                   messages, wMounted, dropped, disconnected>>

\* Socket `who` (the one `ws` refers to, or another one) is in state st.
InState(who, st) ==
    IF who = "current" THEN ws = st ELSE st \in OrphanStates /\ orphans[st] > 0

\* Socket `who` goes from state st to state to.
Moves(who, st, to) ==
    IF who = "current"
    THEN ws' = to /\ UNCHANGED orphans
    ELSE /\ UNCHANGED ws
         /\ orphans' = IF to \in OrphanStates
                       THEN [orphans EXCEPT ![st] = @ - 1, ![to] = @ + 1]
                       ELSE [orphans EXCEPT ![st] = @ - 1]

\* ws.onopen of a socket.
SockOpen(who) ==
    /\ OnlyWs
    /\ InState(who, "connecting")
    /\ wOp' = "open"
    /\ NoSend
    /\ NoRecv
    /\ Moves(who, "connecting", "open")
    /\ connected' = TRUE
    /\ wsError' = NULL
    /\ dropped' = IF who = "current" THEN FALSE ELSE dropped
    /\ UNCHANGED <<reconnectTimer, leaked, intentionalClose, messages,
                   wMounted, sinceDrop, disconnected>>

\* `messages.value.push(String(event.data))`
MessagePushDedup(msgs, m) ==
    IF \E i \in 1..Len(msgs) : msgs[i] = m THEN msgs ELSE Append(msgs, m)
MessagePush(msgs, m) == Append(msgs, m)

\* ws.onmessage of a socket: only an open socket delivers messages.
SockMessage(who, m) ==
    /\ OnlyWs
    /\ InState(who, "open")
    /\ Len(messages) < MaxMsgs
    /\ wOp' = "message"
    /\ NoSend
    /\ wRecv' = m
    /\ messages' = MessagePush(messages, m)
    /\ UNCHANGED <<ws, orphans, reconnectTimer, leaked, intentionalClose,
                   connected, wsError, wMounted, sinceDrop, dropped,
                   disconnected>>

\* What ws.onerror writes: error.value, and no other ref.
ErrorWritesAndDrops == wsError' = WsErrorText /\ connected' = FALSE
ErrorWrites == wsError' = WsErrorText /\ UNCHANGED connected

\* ws.onerror of a socket in state st.
SockError(who, st) ==
    /\ OnlyWs
    /\ st \in OrphanStates
    /\ InState(who, st)
    /\ wOp' = "error"
    /\ NoSend
    /\ NoRecv
    /\ ErrorWrites
    /\ UNCHANGED <<ws, orphans, reconnectTimer, leaked, intentionalClose,
                   messages, wMounted, sinceDrop, dropped, disconnected>>

\* `if (!intentionalClose)` of ws.onclose.
ArmsReconnect == ~intentionalClose

\* ws.onclose of a socket in state st: the connection attempt failed, the
\* remote closed the connection, or the close that ws.close() started has
\* completed.
SockClose(who, st) ==
    /\ OnlyWs
    /\ st \in OrphanStates
    /\ InState(who, st)
    /\ wOp' = "close"
    /\ NoSend
    /\ NoRecv
    /\ Moves(who, st, "closed")
    /\ connected' = FALSE
    /\ IF ArmsReconnect
       THEN /\ PendingCount < MaxTimeouts
            /\ leaked' = Leak(leaked, reconnectTimer)
            /\ reconnectTimer' = PendingHandle(ReconnectDelay)
       ELSE UNCHANGED <<leaked, reconnectTimer>>
    /\ IF who = "current"
       THEN sinceDrop' = 0 /\ dropped' = TRUE
       ELSE UNCHANGED <<sinceDrop, dropped>>
    /\ UNCHANGED <<intentionalClose, wsError, messages, wMounted,
                   disconnected>>

\* send(message)
Send(m) ==
    /\ OnlyWs
    /\ wMounted
    /\ wOp' = "send"
    /\ wSent' = IF ws = "open" THEN m ELSE NULL
    /\ NoRecv
    /\ UNCHANGED <<ws, orphans, reconnectTimer, leaked, intentionalClose,
                   connected, wsError, messages, wMounted, sinceDrop, dropped,
                   disconnected>>

\* ws.close(): a socket that is connecting or open starts closing, and its
\* close event is still to come; a closed one stays closed.
CloseCalled(o, st) ==
    IF st \in {"connecting", "open"} THEN [o EXCEPT !["closing"] = @ + 1] ELSE o

\* The body of disconnect(): the timeout reconnectTimer holds is cleared,
\* the socket `ws` refers to is closed, both are set to null.
DisconnectBody ==
    /\ intentionalClose' = TRUE
    /\ reconnectTimer' = NoHandle
    /\ UNCHANGED leaked
    /\ orphans' = CloseCalled(orphans, ws)
    /\ ws' = NoSock
    /\ connected' = FALSE
    /\ dropped' = FALSE
    /\ disconnected' = TRUE

\* The caller calls disconnect().
Disconnect ==
    /\ OnlyWs
    /\ wMounted
    /\ wOp' = "disconnect"
    /\ NoSend
    /\ NoRecv
    /\ DisconnectBody
    /\ UNCHANGED <<wsError, messages, wMounted, sinceDrop>>

\* clearMessages()
ClearMessages ==
    /\ OnlyWs
    /\ wMounted
    /\ wOp' = "clear"
    /\ NoSend
    /\ NoRecv
    /\ messages' = <<>>
    /\ UNCHANGED <<ws, orphans, reconnectTimer, leaked, intentionalClose,
                   connected, wsError, wMounted, sinceDrop, dropped,
                   disconnected>>

\* onUnmounted(() => disconnect())
WsUnmount ==
    /\ OnlyWs
    /\ wMounted
    /\ wMounted' = FALSE
    /\ wOp' = "unmount"
    /\ NoSend
    /\ NoRecv
    /\ DisconnectBody
    /\ UNCHANGED <<wsError, messages, sinceDrop>>

WsNext ==
    \/ Connect
    \/ TimerFire
    \/ Tick
    \/ \E who \in Who : SockOpen(who)
    \/ \E who \in Who, m \in Payloads : SockMessage(who, m)
    \/ \E who \in Who, st \in OrphanStates : SockError(who, st)
    \/ \E who \in Who, st \in OrphanStates : SockClose(who, st)
    \/ \E m \in Payloads : Send(m)
    \/ Disconnect
    \/ ClearMessages
    \/ WsUnmount

\* ========================================================================
\* MainLayout: the status of the selected server
\* ========================================================================
LayoutInit ==
    /\ activeServerId = NoServer
    /\ servers = <<>>
    /\ serverInfo = NULL
    /\ statusTimer = NoTimer
    /\ statusIntervals = {}
    /\ statusReqs = {}
    /\ nStatus = 0
    /\ layoutPhase = "setup"
    /\ layoutUnmounted = FALSE
    /\ lOp = "init"

ServerIds(list) == {list[i] : i \in 1..Len(list)}

\* fetchStatus() up to its suspension at `await api.get('/status')`, with
\* `act` the selected server at the time of the call: nothing when no
\* server is selected, else a request to the api of that server.
FetchStatus(act) ==
    IF act = NoServer
    THEN UNCHANGED <<statusReqs, nStatus>>
    ELSE /\ nStatus < MaxStatusReqs
         /\ statusReqs' = statusReqs \cup {[id |-> nStatus + 1, target |-> act]}
         /\ nStatus' = nStatus + 1

\* What a resolved status request writes: `serverInfo.value = res.data`,
\* the status of the server the request was sent to.
StatusWrites(r) == serverInfo' = r.target

\* The selection fetchServers() leaves: the first server of the list when
\* none was saved or the saved one is not in the list.
AutoSelect(act, list) ==
    IF (act = NoServer \/ act \notin ServerIds(list)) /\ list # <<>>
    THEN list[1]
    ELSE act

\* The layout is set up and mounted: the store reads the saved selection
\* from localStorage, and onMounted runs up to
\* `await serverStore.fetchServers()`.
LayoutMount(saved) ==
    /\ OnlyLayout
    /\ layoutPhase = "setup"
    /\ layoutPhase' = "fetching"
    /\ lOp' = "mount"
    /\ activeServerId' = saved
    /\ UNCHANGED <<servers, serverInfo, statusTimer, statusIntervals,
                   statusReqs, nStatus, layoutUnmounted>>

\* The rest of onMounted once fetchServers() has settled: fetchStatus() and
\* setInterval(fetchStatus, 10000), whether or not the layout is still
\* mounted.
MountedRest(act) ==
    /\ layoutPhase' = "ready"
    /\ FetchStatus(act)
    /\ statusTimer' = StatusTimerId
    /\ statusIntervals' = statusIntervals \cup {StatusTimerId}

\* GET /servers answers with `list`.
ServersResolve(list) ==
    /\ OnlyLayout
    /\ layoutPhase = "fetching"
    /\ lOp' = "servers"
    /\ servers' = list
    /\ activeServerId' = AutoSelect(activeServerId, list)
    /\ MountedRest(AutoSelect(activeServerId, list))
    /\ UNCHANGED <<serverInfo, layoutUnmounted>>

\* GET /servers fails: `servers.value = []`.
ServersReject ==
    /\ OnlyLayout
    /\ layoutPhase = "fetching"
    /\ lOp' = "serversFailed"
    /\ servers' = <<>>
    /\ MountedRest(activeServerId)
    /\ UNCHANGED <<activeServerId, serverInfo, layoutUnmounted>>

\* selectServer(id), from the list of servers the layout shows.
SelectServer(id) ==
    /\ OnlyLayout
    /\ ~layoutUnmounted
    /\ id \in ServerIds(servers)
    /\ lOp' = "select"
    /\ activeServerId' = id
    /\ FetchStatus(id)
    /\ UNCHANGED <<servers, serverInfo, statusTimer, statusIntervals,
                   layoutPhase, layoutUnmounted>>

\* The status interval fires: fetchStatus().
StatusTick ==
    /\ OnlyLayout
    /\ statusIntervals # {}
    /\ lOp' = "statusTick"
    /\ FetchStatus(activeServerId)
    /\ UNCHANGED <<activeServerId, servers, serverInfo, statusTimer,
                   statusIntervals, layoutPhase, layoutUnmounted>>

\* The status request r resolves.
StatusResolve ==
    \E r \in statusReqs :
        /\ OnlyLayout
        /\ lOp' = "statusResolve"
        /\ StatusWrites(r)
        /\ statusReqs' = statusReqs \ {r}
        /\ UNCHANGED <<activeServerId, servers, statusTimer, statusIntervals,
                       nStatus, layoutPhase, layoutUnmounted>>

\* The status request r fails: `serverInfo.value = null`.
StatusReject ==
    \E r \in statusReqs :
        /\ OnlyLayout
        /\ lOp' = "statusReject"
        /\ serverInfo' = NULL
        /\ statusReqs' = statusReqs \ {r}
        /\ UNCHANGED <<activeServerId, servers, statusTimer, statusIntervals,
                       nStatus, layoutPhase, layoutUnmounted>>

\* onUnmounted: `if (statusTimer) clearInterval(statusTimer)`.
LayoutUnmount ==
    /\ OnlyLayout
    /\ layoutPhase # "setup"
    /\ ~layoutUnmounted
    /\ layoutUnmounted' = TRUE
    /\ lOp' = "unmount"
    /\ statusIntervals' = statusIntervals \ {statusTimer}
    /\ UNCHANGED <<activeServerId, servers, serverInfo, statusTimer,
                   statusReqs, nStatus, layoutPhase>>

LayoutNext ==
    \/ \E saved \in SavedIds : LayoutMount(saved)
    \/ \E list \in ServerLists : ServersResolve(list)
    \/ ServersReject
    \/ \E id \in Servers : SelectServer(id)
    \/ StatusTick
    \/ StatusResolve
    \/ StatusReject
    \/ LayoutUnmount

\* ========================================================================
\* The map view: pan and zoom
\* ========================================================================
\* Numbers of the view are exact fractions [n, d] in lowest terms, d > 0.
Abs(i) == IF i < 0 THEN -i ELSE i

RECURSIVE GCD(_, _)
GCD(a, b) == IF b = 0 THEN a ELSE GCD(b, a % b)

LCM(a, b) == (a \div GCD(a, b)) * b

Rat(n, d) ==
    LET g == GCD(Abs(n), d) IN [n |-> n \div g, d |-> d \div g]
RInt(i) == [n |-> i, d |-> 1]

RAdd(a, b) ==
    LET l == LCM(a.d, b.d) IN Rat(a.n * (l \div a.d) + b.n * (l \div b.d), l)
RSub(a, b) == RAdd(a, [n |-> -b.n, d |-> b.d])
RMul(a, b) ==
    LET g1 == GCD(Abs(a.n), b.d)
        g2 == GCD(Abs(b.n), a.d)
    IN  Rat((a.n \div g1) * (b.n \div g2), (a.d \div g2) * (b.d \div g1))
\* a / b, for b # 0
RDiv(a, b) ==
    RMul(a, IF b.n > 0 THEN [n |-> b.d, d |-> b.n] ELSE [n |-> -b.d, d |-> -b.n])
RLe(a, b) ==
    LET l == LCM(a.d, b.d) IN a.n * (l \div a.d) <= b.n * (l \div b.d)
RMin(a, b) == IF RLe(a, b) THEN a ELSE b
RMax(a, b) == IF RLe(a, b) THEN b ELSE a

ZoomMin == Rat(1, 10)       \* Math.max(0.1, ...)
ZoomMax == RInt(10)         \* Math.min(10, ...)
WheelOut == Rat(9, 10)      \* delta for deltaY > 0
WheelIn == Rat(11, 10)      \* delta otherwise
ButtonStep == Rat(6, 5)     \* 1.2 of zoomIn() and zoomOut()
FitMargin == Rat(19, 20)    \* 0.95 of fitToCanvas()

MapInit ==
    /\ zoom = RInt(1)
    /\ panX = RInt(0)
    /\ panY = RInt(0)
    /\ isDragging = FALSE
    /\ dragStartX = RInt(0)
    /\ dragStartY = RInt(0)
    /\ mapImage = NoImage
    /\ container = <<800, 600>>
    /\ canvasSize = DefaultCanvas
    /\ canvasRef = FALSE
    /\ mapLoading = TRUE
    /\ mapError = FALSE
    /\ mapOps = 0
    /\ mOp = "init"
    /\ mPtr = NoPoint
    /\ downAt = NoDrag
    /\ worldSize = DefaultWorldSize
    /\ players = <<>>

\* The same with the larger of the two ratios.
FitZoomCover(c, im) == RMul(RMax(Rat(c[1], im[1]), Rat(c[2], im[2])), FitMargin)
\* Math.min(scaleX, scaleY) * 0.95 for a container c and an image im.
FitZoom(c, im) == RMul(RMin(Rat(c[1], im[1]), Rat(c[2], im[2])), FitMargin)

\* (containerWidth - mapImage.width * zoom.value) / 2, for either axis.
FitPan(cdim, idim, z) == RDiv(RSub(RInt(cdim), RMul(RInt(idim), z)), RInt(2))

\* fitToCanvas() with `im` the image held: nothing without a canvas or an
\* image; else the canvas takes the size of its container and zoom and pan
\* are set to show the whole image, centered.
FitToCanvas(im) ==
    IF ~canvasRef \/ im = NoImage
    THEN UNCHANGED <<zoom, panX, panY, canvasSize>>
    ELSE /\ canvasSize' = container
         /\ zoom' = FitZoom(container, im)
         /\ panX' = FitPan(container[1], im[1], FitZoom(container, im))
         /\ panY' = FitPan(container[2], im[2], FitZoom(container, im))

\* One more user operation, while the bound allows it.
UserOp == mapOps < MaxMapOps /\ mapOps' = mapOps + 1

\* img.onload during fetchMapInfo(): the image is kept and fitToCanvas()
\* is called while the page still shows the spinner; then the finally
\* clause clears loading and the canvas is rendered.
MapLoaded(img, wsz) ==
    /\ OnlyMap
    /\ mapLoading
    /\ mOp' = "loaded"
    /\ worldSize' = wsz
    /\ UNCHANGED players
    /\ mPtr' = NoPoint
    /\ UNCHANGED downAt
    /\ mapImage' = img
    /\ FitToCanvas(img)
    /\ mapLoading' = FALSE
    /\ canvasRef' = TRUE
    /\ UNCHANGED <<isDragging, dragStartX, dragStartY, container, mapError,
                   mapOps>>

\* GET /map answers without an image url: the canvas is rendered empty.
MapNoImage(wsz) ==
    /\ OnlyMap
    /\ mapLoading
    /\ mOp' = "noImage"
    /\ worldSize' = wsz
    /\ UNCHANGED players
    /\ mPtr' = NoPoint
    /\ UNCHANGED downAt
    /\ mapLoading' = FALSE
    /\ canvasRef' = TRUE
    /\ UNCHANGED <<zoom, panX, panY, isDragging, dragStartX, dragStartY,
                   mapImage, container, canvasSize, mapError, mapOps>>

\* GET /map fails (worldSize is left alone), or img.onerror (worldSize was
\* assigned before): the page shows the error, no canvas.
MapFailed(wsz) ==
    /\ OnlyMap
    /\ mapLoading
    /\ mOp' = "failed"
    /\ worldSize' \in {worldSize, wsz}
    /\ UNCHANGED players
    /\ mPtr' = NoPoint
    /\ UNCHANGED downAt
    /\ mapLoading' = FALSE
    /\ mapError' = TRUE
    /\ UNCHANGED <<zoom, panX, panY, isDragging, dragStartX, dragStartY,
                   mapImage, container, canvasSize, canvasRef, mapOps>>

\* resetView()
ResetView ==
    /\ OnlyMap
    /\ UserOp
    /\ mOp' = "reset"
    /\ UNCHANGED <<worldSize, players>>
    /\ mPtr' = NoPoint
    /\ UNCHANGED downAt
    /\ FitToCanvas(mapImage)
    /\ UNCHANGED <<isDragging, dragStartX, dragStartY, mapImage, container,
                   canvasRef, mapLoading, mapError>>

\* Math.max(0.1, Math.min(10, z))
ClampZoom(z) == RMax(ZoomMin, RMin(ZoomMax, z))

\* The same without the division by the old zoom.
WheelPanNoOldZoom(mouse, pan, newZoom, oldZoom) ==
    RSub(RInt(mouse), RMul(RSub(RInt(mouse), pan), newZoom))
\* mouse - (mouse - pan) * (zoom.value / oldZoom), for either axis.
WheelPan(mouse, pan, newZoom, oldZoom) ==
    RSub(RInt(mouse), RMul(RSub(RInt(mouse), pan), RDiv(newZoom, oldZoom)))

\* handleWheel(e), the pointer at p over the canvas, delta the factor.
HandleWheel(p, delta) ==
    /\ OnlyMap
    /\ canvasRef
    /\ UserOp
    /\ mOp' = "wheel"
    /\ UNCHANGED <<worldSize, players>>
    /\ mPtr' = p
    /\ UNCHANGED downAt
    /\ zoom' = ClampZoom(RMul(zoom, delta))
    /\ panX' = WheelPan(p[1], panX, ClampZoom(RMul(zoom, delta)), zoom)
    /\ panY' = WheelPan(p[2], panY, ClampZoom(RMul(zoom, delta)), zoom)
    /\ UNCHANGED <<isDragging, dragStartX, dragStartY, mapImage, container,
                   canvasSize, canvasRef, mapLoading, mapError>>

\* handleMouseDown(e)
HandleMouseDown(p) ==
    /\ OnlyMap
    /\ canvasRef
    /\ UserOp
    /\ mOp' = "down"
    /\ UNCHANGED <<worldSize, players>>
    /\ mPtr' = p
    /\ downAt' = [p |-> p, panX |-> panX, panY |-> panY]
    /\ isDragging' = TRUE
    /\ dragStartX' = RSub(RInt(p[1]), panX)
    /\ dragStartY' = RSub(RInt(p[2]), panY)
    /\ UNCHANGED <<zoom, panX, panY, mapImage, container, canvasSize,
                   canvasRef, mapLoading, mapError>>

\* The same, kept from going below 0.
DragPanClamped(mouse, start) == RMax(RInt(0), RSub(RInt(mouse), start))
\* e.clientX - dragStartX, for either axis.
DragPan(mouse, start) == RSub(RInt(mouse), start)

\* handleMouseMove(e)
HandleMouseMove(p) ==
    /\ OnlyMap
    /\ canvasRef
    /\ UserOp
    /\ mOp' = "move"
    /\ UNCHANGED <<worldSize, players>>
    /\ mPtr' = p
    /\ UNCHANGED downAt
    /\ IF isDragging
       THEN /\ panX' = DragPan(p[1], dragStartX)
            /\ panY' = DragPan(p[2], dragStartY)
       ELSE UNCHANGED <<panX, panY>>
    /\ UNCHANGED <<zoom, isDragging, dragStartX, dragStartY, mapImage,
                   container, canvasSize, canvasRef, mapLoading, mapError>>

\* handleMouseUp(), on mouseup and on mouseleave
HandleMouseUp ==
    /\ OnlyMap
    /\ canvasRef
    /\ UserOp
    /\ mOp' = "up"
    /\ UNCHANGED <<worldSize, players>>
    /\ mPtr' = NoPoint
    /\ downAt' = NoDrag
    /\ isDragging' = FALSE
    /\ UNCHANGED <<zoom, panX, panY, dragStartX, dragStartY, mapImage,
                   container, canvasSize, canvasRef, mapLoading, mapError>>

\* zoomIn()
ZoomIn ==
    /\ OnlyMap
    /\ UserOp
    /\ mOp' = "zoomIn"
    /\ UNCHANGED <<worldSize, players>>
    /\ mPtr' = NoPoint
    /\ UNCHANGED downAt
    /\ zoom' = RMin(ZoomMax, RMul(zoom, ButtonStep))
    /\ UNCHANGED <<panX, panY, isDragging, dragStartX, dragStartY, mapImage,
                   container, canvasSize, canvasRef, mapLoading, mapError>>

\* zoomOut()
ZoomOut ==
    /\ OnlyMap
    /\ UserOp
    /\ mOp' = "zoomOut"
    /\ UNCHANGED <<worldSize, players>>
    /\ mPtr' = NoPoint
    /\ UNCHANGED downAt
    /\ zoom' = RMax(ZoomMin, RDiv(zoom, ButtonStep))
    /\ UNCHANGED <<panX, panY, isDragging, dragStartX, dragStartY, mapImage,
                   container, canvasSize, canvasRef, mapLoading, mapError>>

\* The window is resized and the container takes the size sz. The resize
\* listener, registered once fetchMapInfo() has settled, gives the canvas
\* the size of its container and renders; before that nothing listens.
WindowResize(sz) ==
    /\ OnlyMap
    /\ sz # container
    /\ UserOp
    /\ mOp' = "resize"
    /\ UNCHANGED <<worldSize, players>>
    /\ mPtr' = NoPoint
    /\ UNCHANGED downAt
    /\ container' = sz
    /\ canvasSize' = IF ~mapLoading /\ canvasRef THEN sz ELSE canvasSize
    /\ UNCHANGED <<zoom, panX, panY, isDragging, dragStartX, dragStartY,
                   mapImage, canvasRef, mapLoading, mapError>>

\* fetchPositions(), called once fetchMapInfo() has settled and every 5 s
\* from then on, resolves with the list of players, and renders.
PositionsResolve(list) ==
    /\ OnlyMap
    /\ ~mapLoading
    /\ mOp' = "positions"
    /\ mPtr' = NoPoint
    /\ players' = list
    /\ UNCHANGED <<zoom, panX, panY, isDragging, dragStartX, dragStartY,
                   mapImage, container, canvasSize, canvasRef, mapLoading,
                   mapError, mapOps, downAt, worldSize>>

\* fetchPositions() fails: silent.
PositionsReject ==
    /\ OnlyMap
    /\ ~mapLoading
    /\ mOp' = "positionsFailed"
    /\ mPtr' = NoPoint
    /\ UNCHANGED <<zoom, panX, panY, isDragging, dragStartX, dragStartY,
                   mapImage, container, canvasSize, canvasRef, mapLoading,
                   mapError, mapOps, downAt, worldSize, players>>

\* imgY of render() with the sign of z the other way round.
ImgYZDown(z, wsz, imgH) ==
    RMul(RDiv(RAdd(Rat(wsz, 2), RInt(z)), RInt(wsz)), RInt(imgH))
\* ((p.x + half) / worldSize.value) * imgW
ImgX(x, wsz, imgW) ==
    RMul(RDiv(RAdd(RInt(x), Rat(wsz, 2)), RInt(wsz)), RInt(imgW))
\* ((half - p.z) / worldSize.value) * imgH
ImgY(z, wsz, imgH) ==
    RMul(RDiv(RSub(Rat(wsz, 2), RInt(z)), RInt(wsz)), RInt(imgH))

\* The markers render() draws, in image coordinates, one per player: none
\* without a canvas, without an image or without players.
Markers ==
    IF canvasRef /\ mapImage # NoImage
    THEN [i \in 1..Len(players) |->
            << ImgX(players[i][1], worldSize, mapImage[1]),
               ImgY(players[i][2], worldSize, mapImage[2]) >>]
    ELSE <<>>

MapNext ==
    \/ \E img \in Images, wsz \in WorldSizes : MapLoaded(img, wsz)
    \/ \E wsz \in WorldSizes : MapNoImage(wsz)
    \/ \E wsz \in WorldSizes : MapFailed(wsz)
    \/ \E list \in PlayerLists : PositionsResolve(list)
    \/ PositionsReject
    \/ ResetView
    \/ \E p \in Points, delta \in {WheelOut, WheelIn} : HandleWheel(p, delta)
    \/ \E p \in Points : HandleMouseDown(p)
    \/ \E p \in Points : HandleMouseMove(p)
    \/ HandleMouseUp
    \/ ZoomIn
    \/ ZoomOut
    \/ \E sz \in Surfaces : WindowResize(sz)

\* ========================================================================
\* The console page: its socket, its reconnect timer, its command buttons
\* ========================================================================
\* A socket is [st, target, onclose]: its readyState, the server of its
\* url, and whether its onclose handler is attached. The handlers that only
\* write to the terminal (onopen, onmessage, onerror) change nothing here.
\* await nextTick() of onMounted and the flush that runs the watch callback
\* are microtasks: no event, timer or click comes in between.
ConsoleInit ==
    /\ cPhase = "init"
    /\ cWs = NoConn
    /\ cOld = <<>>
    /\ cTimer = "null"
    /\ cLeaked = 0
    /\ runningCommand = NULL
    /\ cmdOut = <<>>
    /\ cOp = "init"
    /\ cSent = NULL

\* The socket with its handler left in place.
KeepsHandler(sock) == sock
\* ws.onclose = null
Detached(sock) == [sock EXCEPT !.onclose = FALSE]

\* ws.close(): a socket that is connecting or open starts closing.
Closing(sock) ==
    IF sock.st \in {"connecting", "open"}
    THEN [sock EXCEPT !.st = "closing"]
    ELSE sock

\* `if (ws) { ws.onclose = null; ws.close() }` before `ws` is reassigned:
\* the old socket, unless it is closed already, lives on until it closes.
Retire(old, sock) ==
    IF Closing(Detached(sock)).st = "closing"
    THEN Append(old, Closing(Detached(sock)))
    ELSE old

\* if (reconnectTimer) clearTimeout(reconnectTimer)
TimerCleared(tm) == IF tm = "pending" THEN "spent" ELSE tm

\* connectWebSocket() with act the active server and tm the state of the
\* timeout `reconnectTimer` refers to: nothing without an active server;
\* else the old socket is detached and closed, the timeout cancelled and a
\* socket to the active server created, its handlers attached.
ConnectWebSocket(act, tm) ==
    IF act = NoServer
    THEN /\ cTimer' = tm
         /\ UNCHANGED <<cWs, cOld>>
    ELSE /\ Len(Retire(cOld, cWs)) < MaxSocks
         /\ cOld' = Retire(cOld, cWs)
         /\ cTimer' = TimerCleared(tm)
         /\ cWs' = [st |-> "connecting", target |-> act, onclose |-> TRUE]

\* The onclose handler: reconnectTimer = setTimeout(connectWebSocket, 3000).
\* A timeout still pending under the old handle is referred to no more.
ArmReconnect ==
    /\ cLeaked' = cLeaked + (IF cTimer = "pending" THEN 1 ELSE 0)
    /\ cLeaked' <= MaxTimeouts
    /\ cTimer' = "pending"

NoCommand == UNCHANGED <<runningCommand, cmdOut>> /\ cSent' = NULL

\* onMounted: initTerminal(), connectWebSocket()
ConsoleMount ==
    /\ OnlyConsole
    /\ cPhase = "init"
    /\ cPhase' = "mounted"
    /\ cOp' = "mount"
    /\ ConnectWebSocket(activeServerId, cTimer)
    /\ NoCommand
    /\ UNCHANGED <<activeServerId, cLeaked>>

\* setActiveServer(id) of the store with another id and, on a mounted
\* page, the watch callback: connectWebSocket().
SwitchServer(id) ==
    /\ OnlyConsole
    /\ id # activeServerId
    /\ activeServerId' = id
    /\ cOp' = "switch"
    /\ IF cPhase = "mounted"
       THEN ConnectWebSocket(id, cTimer)
       ELSE UNCHANGED <<cWs, cOld, cTimer>>
    /\ NoCommand
    /\ UNCHANGED <<cPhase, cLeaked>>

\* A pending reconnect timeout fires, the one `reconnectTimer` refers to
\* or another: connectWebSocket().
ReconnectFire(which) ==
    /\ OnlyConsole
    /\ cOp' = "timer"
    /\ IF which = "held"
       THEN /\ cTimer = "pending"
            /\ ConnectWebSocket(activeServerId, "spent")
            /\ UNCHANGED cLeaked
       ELSE /\ cLeaked > 0
            /\ cLeaked' = cLeaked - 1
            /\ ConnectWebSocket(activeServerId, cTimer)
    /\ NoCommand
    /\ UNCHANGED <<activeServerId, cPhase>>

\* The socket `ws` refers to opens.
ConsoleSockOpen ==
    /\ OnlyConsole
    /\ cWs.st = "connecting"
    /\ cWs' = [cWs EXCEPT !.st = "open"]
    /\ cOp' = "open"
    /\ NoCommand
    /\ UNCHANGED <<activeServerId, cPhase, cOld, cTimer, cLeaked>>

\* The socket `ws` refers to closes: the attempt failed, the connection
\* was lost, or its close() has completed. Its onclose handler runs if it
\* is attached.
ConsoleSockClose ==
    /\ OnlyConsole
    /\ cWs.st \in {"connecting", "open", "closing"}
    /\ cWs' = [cWs EXCEPT !.st = "closed"]
    /\ cOp' = "close"
    /\ IF cWs.onclose THEN ArmReconnect ELSE UNCHANGED <<cTimer, cLeaked>>
    /\ NoCommand
    /\ UNCHANGED <<activeServerId, cPhase, cOld>>

\* A socket `ws` referred to once closes. Its onclose handler runs if it
\* is attached.
OldSockClose(i) ==
    /\ OnlyConsole
    /\ i \in 1..Len(cOld)
    /\ cOld' = [j \in 1..(Len(cOld) - 1) |->
                  IF j < i THEN cOld[j] ELSE cOld[j + 1]]
    /\ cOp' = "oldClose"
    /\ IF cOld[i].onclose THEN ArmReconnect ELSE UNCHANGED <<cTimer, cLeaked>>
    /\ NoCommand
    /\ UNCHANGED <<activeServerId, cPhase, cWs>>

\* onUnmounted: the timeout is cancelled, the socket detached and closed.
ConsoleUnmount ==
    /\ OnlyConsole
    /\ cPhase = "mounted"
    /\ cPhase' = "unmounted"
    /\ cOp' = "unmount"
    /\ cTimer' = TimerCleared(cTimer)
    /\ cWs' = Closing(Detached(cWs))
    /\ NoCommand
    /\ UNCHANGED <<activeServerId, cOld, cLeaked>>

\* No guard at all.
RunNeverBusy == FALSE
\* if (runningCommand.value) return
RunIsBusy == runningCommand # NULL

\* runServerCommand(cmd), from a button of the page: nothing while a
\* command runs; else runningCommand is set and the request posted.
RunServerCommand(cmd) ==
    /\ OnlyConsole
    /\ cPhase = "mounted"
    /\ cOp' = "run"
    /\ IF RunIsBusy
       THEN NoCommand
       ELSE /\ Len(cmdOut) < MaxCmds
            /\ runningCommand' = cmd
            /\ cmdOut' = Append(cmdOut, cmd)
            /\ cSent' = cmd
    /\ UNCHANGED <<activeServerId, cPhase, cWs, cOld, cTimer, cLeaked>>

\* finally { runningCommand.value = null }
CommandFinally == runningCommand' = NULL

\* The request i settles, with a response (ok) or with an error: the
\* output or the error goes to the terminal, then the finally clause.
CommandSettles(i, ok) ==
    /\ OnlyConsole
    /\ i \in 1..Len(cmdOut)
    /\ cmdOut' = [j \in 1..(Len(cmdOut) - 1) |->
                    IF j < i THEN cmdOut[j] ELSE cmdOut[j + 1]]
    /\ cOp' = IF ok THEN "cmdDone" ELSE "cmdFailed"
    /\ CommandFinally
    /\ cSent' = NULL
    /\ UNCHANGED <<activeServerId, cPhase, cWs, cOld, cTimer, cLeaked>>

ConsoleNext ==
    \/ ConsoleMount
    \/ \E id \in Servers : SwitchServer(id)
    \/ \E which \in {"held", "leaked"} : ReconnectFire(which)
    \/ ConsoleSockOpen
    \/ ConsoleSockClose
    \/ \E i \in 1..MaxSocks : OldSockClose(i)
    \/ ConsoleUnmount
    \/ \E cmd \in Endpoints : RunServerCommand(cmd)
    \/ \E i \in 1..MaxCmds, ok \in BOOLEAN : CommandSettles(i, ok)

\* ========================================================================
\* The home page: polling of the provisioning log
\* ========================================================================
HomeInit ==
    /\ logTarget = NULL
    /\ logStatus = NoStatus
    /\ logPollTimer = NoTimer
    /\ logIntervals = {}
    /\ logReqs = [open |-> 0, tick |-> 0]
    /\ hMounted = TRUE

\* fetchProvisionLogs() up to its await: a request is in flight.
FetchProvisionLogs(by) ==
    /\ logReqs["open"] + logReqs["tick"] < MaxLogReqs
    /\ logReqs' = [logReqs EXCEPT ![by] = @ + 1]

\* openLogs(server), from the logs button of a server card whose
\* provisioning status is st: target and status are set, the first fetch
\* is awaited.
OpenLogs(server, st) ==
    /\ OnlyHome
    /\ hMounted
    /\ logTarget' = server
    /\ logStatus' = st
    /\ FetchProvisionLogs("open")
    /\ UNCHANGED <<logPollTimer, logIntervals, hMounted>>

\* closeLogs()
CloseLogs ==
    /\ OnlyHome
    /\ hMounted
    /\ logTarget' = NULL
    /\ logIntervals' = Cleared(logPollTimer, logIntervals)
    /\ logPollTimer' = NoTimer
    /\ UNCHANGED <<logStatus, logReqs, hMounted>>

\* The log interval fires: a fetch for the target, if there is one.
LogTick ==
    /\ OnlyHome
    /\ logIntervals # {}
    /\ logTarget # NULL
    /\ FetchProvisionLogs("tick")
    /\ UNCHANGED <<logTarget, logStatus, logPollTimer, logIntervals,
                   hMounted>>

\* The timer after the response with the status st was handled: cleared
\* on 'ready' and on 'error'.
AfterStatus(st) ==
    IF st \in {"ready", "error"}
    THEN [timer |-> NoTimer, ivs |-> Cleared(logPollTimer, logIntervals)]
    ELSE [timer |-> logPollTimer, ivs |-> logIntervals]

\* What follows a fetch made by `by`, the timer being t: openLogs()
\* resumes after its own, clears the interval held and starts a new one.
FetchReturns(by, t) ==
    IF by = "open"
    THEN /\ logPollTimer' = FreshInterval(Cleared(t.timer, t.ivs))
         /\ logIntervals' = Cleared(t.timer, t.ivs) \cup {logPollTimer'}
    ELSE logPollTimer' = t.timer /\ logIntervals' = t.ivs

\* A request answers with the status st: the status is kept, the timer
\* cleared on a final status.
LogsResolve(by, st) ==
    /\ OnlyHome
    /\ logReqs[by] > 0
    /\ logReqs' = [logReqs EXCEPT ![by] = @ - 1]
    /\ logStatus' = st
    /\ FetchReturns(by, AfterStatus(st))
    /\ UNCHANGED <<logTarget, hMounted>>

\* A request fails: silent.
LogsReject(by) ==
    /\ OnlyHome
    /\ logReqs[by] > 0
    /\ logReqs' = [logReqs EXCEPT ![by] = @ - 1]
    /\ FetchReturns(by, [timer |-> logPollTimer, ivs |-> logIntervals])
    /\ UNCHANGED <<logTarget, logStatus, hMounted>>

\* onUnmounted: the interval held is cleared, the handle is kept.
HomeUnmount ==
    /\ OnlyHome
    /\ hMounted
    /\ hMounted' = FALSE
    /\ logIntervals' = Cleared(logPollTimer, logIntervals)
    /\ UNCHANGED <<logTarget, logStatus, logPollTimer, logReqs>>

HomeNext ==
    \/ \E server \in Servers, st \in Statuses : OpenLogs(server, st)
    \/ CloseLogs
    \/ LogTick
    \/ \E by \in {"open", "tick"}, st \in Statuses : LogsResolve(by, st)
    \/ \E by \in {"open", "tick"} : LogsReject(by)
    \/ HomeUnmount

\* ========================================================================
\* Specifications
\* ========================================================================
Init ==
    PollInit /\ WsInit /\ LayoutInit /\ MapInit /\ ConsoleInit /\ HomeInit

\* One usePolling instance, its caller, its timer and its fetches.
SpecPoll == Init /\ [][PollNext]_vars

\* One useWebSocket instance, its caller, its sockets and its timeouts.
SpecWs == Init /\ [][WsNext]_vars

\* The layout, the server store, its status requests and its interval.
SpecLayout == Init /\ [][LayoutNext]_vars

\* The map view, its image, its container and its user.
SpecMap == Init /\ [][MapNext]_vars

\* The console page, the store's active server, its sockets, its timeouts
\* and its command requests.
SpecConsole == Init /\ [][ConsoleNext]_vars

\* The home page, its log panel, its log interval and its log requests.
SpecHome == Init /\ [][HomeNext]_vars

\* All components side by side.
Next ==
    PollNext \/ WsNext \/ LayoutNext \/ MapNext \/ ConsoleNext \/ HomeNext
Spec == Init /\ [][Next]_vars

\* The event loop runs what is due: time passes, a due timeout fires, a
\* connection attempt or a started close settles; and the remote accepts
\* connections again: an attempt on the current socket that is made again
\* and again eventually succeeds. The caller is under no obligation.
SockSettles ==
    \E who \in Who, st \in {"connecting", "closing"} :
        SockOpen(who) \/ SockClose(who, st)
CurrentOpens == SockOpen("current")
SpecWsLive ==
    /\ Init
    /\ [][WsNext]_vars
    /\ WF_vars(Tick)
    /\ WF_vars(TimerFire)
    /\ WF_vars(SockSettles)
    /\ SF_vars(CurrentOpens)

\* ------------------------------------------------------------------------
\* Properties of usePolling
\* ------------------------------------------------------------------------

\* C1: single-flight - at most one fetchFn call is outstanding at any
\* instant, for every sequence of start(), stop(), restart() and ticks.
C1_SingleFlight ==
    Cardinality({f \in inflight : f.by \in {"start", "tick"}}) <= 1

\* C7: while the engine is stopped, no step starts a fetch on behalf of the
\* interval timer, and a fetch that settles while the engine is stopped
\* still writes data/error/loading.
C7_StopHaltsTimerOnly ==
    [][ /\ (~active => pOp' # "tick")
        /\ (~active => \A f \in inflight' \ inflight : f.by # "tick")
        /\ (~active /\ pOp' = "resolve"
              => data' = pVal' /\ error' = NULL /\ loading' = FALSE)
        /\ (~active /\ pOp' = "reject"
              => error' = pVal' /\ data' = data /\ loading' = FALSE)
      ]_vars

\* C7 witness: start() polled, a tick polled again, stop() was called with
\* both fetches in flight, and the first fetch has just resolved and written.
C7_Witness ==
    /\ ~active /\ pMounted /\ pOp = "resolve" /\ nextSeq = 2
    /\ \E f \in inflight : f.by = "tick"
    /\ data = pVal /\ error = NULL /\ ~loading

\* C8: start() on an active engine changes nothing, at most one interval
\* timer is alive, and one is alive exactly when the engine is active.
C8_StartIdempotent ==
    /\ [](/\ Cardinality(intervals) <= 1
          /\ (active <=> intervals # {})
          /\ (active => intervals = {timer})
          /\ (~active => timer = NoTimer))
    /\ [][active /\ pOp' = "start"
            => UNCHANGED <<data, loading, error, timer, active, intervals,
                           inflight, nextSeq, dataFrom>>]_vars

\* C8 witness: start() has just returned on an engine that was already
\* active: the only fetch so far, begun by the activating start(), has
\* resolved, so the last start() began none.
C8_Witness ==
    pOp = "start" /\ active /\ inflight = {} /\ nextSeq = 1 /\ data # NULL

\* C9: loading is true exactly when a fetch of this engine is outstanding.
C9_LoadingIsInFlight == loading <=> inflight # {}

\* C10: a failed fetch sets error to a non-null message and leaves data as
\* it was; a successful fetch sets data to the fetched value and error to
\* null; nothing else ever changes data (so it stays null until a success).
C10_StaleButPresent ==
    [][ /\ (pOp' = "reject" => error' # NULL /\ error' = pVal' /\ data' = data)
        /\ (pOp' = "resolve" => data' = pVal' /\ error' = NULL)
        /\ (data' # data => pOp' = "resolve")
      ]_vars

\* C10 witness: a fetch has just failed after an earlier one succeeded;
\* data still holds the earlier value and error is set.
C10_Witness == pOp = "reject" /\ data \in Values /\ error # NULL /\ error = pVal

\* Fetches begun by the engine itself: by start(), restart() or a tick.
EngineFetch(f) == f.by \in {"start", "tick"}

\* C11: results are applied in the order their fetches were started - a
\* resolving fetch of the engine never overwrites data that came from a
\* fetch of the engine started after it.
C11_AppliedInStartOrder ==
    [][pOp' = "resolve" /\ EngineFetch(dataFrom') /\ EngineFetch(dataFrom)
            => dataFrom'.seq > dataFrom.seq]_vars

LiveSocks ==
    orphans["connecting"] + orphans["open"]
        + (IF ws \in {"connecting", "open"} THEN 1 ELSE 0)

\* The number of sockets of this instance that are connecting.
Connecting == orphans["connecting"] + (IF ws = "connecting" THEN 1 ELSE 0)

\* The step creates a WebSocket object: only `new WebSocket` adds to the
\* sockets that are connecting.
CreatesSock == Connecting' > Connecting

\* The step arms a reconnect timeout for the full delay.
ArmsTimeout ==
    /\ PendingCount' = PendingCount + 1
    /\ reconnectTimer' = PendingHandle(ReconnectDelay)

\* The step is the close event of the current connection, and no
\* disconnect() had asked for that close.
UnexpectedClose ==
    /\ wOp' = "close"
    /\ ws \in {"connecting", "open"}
    /\ ws' = "closed"

\* C2: at most one WebSocket of this instance is connecting or open with
\* its handlers attached.
C2_OneLiveConnection == LiveSocks <= 1

\* C3: after disconnect(), and until the caller calls connect() again, no
\* reconnect timeout is armed, no pending timeout fires and no WebSocket
\* is created.
C3_NoReconnectAfterDisconnect ==
    [][disconnected /\ wOp' # "connect"
         => /\ PendingCount' <= PendingCount
            /\ wOp' # "timer"
            /\ ~CreatesSock
      ]_vars

\* C4: every close of the current connection that no disconnect() asked
\* for arms a reconnect timeout, whatever calls preceded it.
C4_UnexpectedCloseArms == [][UnexpectedClose => ArmsTimeout]_vars

\* C5: the reconnect timer creates a connection only when the full delay
\* has elapsed since the last unexpected close of the current connection.
C5_DelayHonored ==
    [][wOp' = "timer" /\ CreatesSock => sinceDrop >= ReconnectDelay]_vars

\* The model has run out of socket or timeout slots.
BoundReached == SockCount = MaxSocks \/ PendingCount = MaxTimeouts

\* C6: after an unexpected drop the manager is eventually open again with
\* connected = true, unless the caller steps in first.
C6_ReconnectLiveness == dropped ~> (~dropped \/ BoundReached)

\* C13: once the owner of an instance is unmounted nothing of it is left
\* alive - no interval timer of the polling engine, no reconnect timeout and
\* no connecting or open WebSocket of the channel manager.
C13_TeardownLeavesNothing ==
    /\ (~pMounted => intervals = {})
    /\ (~wMounted => PendingCount = 0 /\ LiveSocks = 0)

\* C14: a message event appends exactly its payload at the end of messages,
\* whatever messages already holds - nothing is dropped as a duplicate and
\* nothing is reordered.
C14_AppendInArrivalOrder ==
    [][wOp' = "message"
            => wRecv' \in Payloads /\ messages' = Append(messages, wRecv')]_vars

\* C14 witness: the same payload has arrived twice and is there twice.
C14_Witness ==
    wOp = "message" /\ Len(messages) = 2 /\ messages[1] = messages[2]
                    /\ wRecv = messages[2]

IsPrefix(a, b) == Len(a) <= Len(b) /\ \A i \in 1..Len(a) : a[i] = b[i]

\* C15: messages only grows at its end, whatever happens to the connection;
\* clearMessages() alone removes entries.
C15_AppendOnly == [][wOp' # "clear" => IsPrefix(messages, messages')]_vars

\* C15 witness: a message arrived, the connection dropped, and the timer
\* has just made the manager connect again with the message still there.
C15_Witness == wOp = "timer" /\ messages # <<>> /\ ws = "connecting"

\* C16: send() hands the payload to the socket exactly when the current
\* connection is open; otherwise nothing is handed over and a notice is
\* appended locally.
C16_SendOrNotice ==
    [][wOp' = "send"
            => IF ws = "open"
               THEN wSent' \in Payloads /\ UNCHANGED <<messages, wsError>>
               ELSE /\ wSent' = NULL
                    /\ \/ Len(messages') = Len(messages) + 1
                       \/ wsError' # wsError]_vars

\* C17: after disconnect() connected is false, no reconnect timeout is
\* pending and `ws` holds no socket; a disconnect() that directly follows a
\* disconnect() changes nothing.
C17_DisconnectIdempotent ==
    [][wOp' = "disconnect"
            => /\ ~connected' /\ ws' = NoSock
               /\ reconnectTimer' = NoHandle /\ PendingCount' = 0
               /\ (wOp = "disconnect"
                     => UNCHANGED <<ws, orphans, reconnectTimer, leaked,
                                    intentionalClose, connected, wsError,
                                    messages>>)]_vars

\* C19: an error event sets error to the fixed notice and changes nothing
\* else - neither connected, nor messages, nor the socket, nor a timer.
C19_ErrorOnlySetsError ==
    [][wOp' = "error"
            => /\ wsError' = WsErrorText
               /\ UNCHANGED <<connected, messages, ws, orphans,
                              reconnectTimer, leaked, intentionalClose>>]_vars

\* C19 witness: an error event has just arrived on the open current
\* connection, which still counts as connected and keeps its messages.
C19_Witness ==
    /\ wOp = "error" /\ wsError = WsErrorText /\ connected
    /\ ws = "open" /\ messages # <<>>

\* ------------------------------------------------------------------------
\* Properties of MainLayout
\* ------------------------------------------------------------------------

\* C12: a status response is written into serverInfo only while the server
\* it was requested for is still the selected one; the response to a
\* request for the previously selected server is discarded.
C12_LateResultDiscarded ==
    [][lOp' = "statusResolve" => serverInfo' = activeServerId']_vars

\* ------------------------------------------------------------------------
\* Properties of the map view
\* ------------------------------------------------------------------------

\* C20: whatever the image, the container and the operations performed,
\* zoom lies between 0.1 and 10.
C20_ZoomInRange == RLe(ZoomMin, zoom) /\ RLe(zoom, ZoomMax)

\* ------------------------------------------------------------------------
\* Properties of the map view: wheel, markers, fit, drag
\* ------------------------------------------------------------------------
\* The image coordinate shown at the screen coordinate q of one axis, under
\* the translation pan and the scale z: (q - pan) / z.
ImagePoint(q, pan, z) == RDiv(RSub(RInt(q), pan), z)

\* C21: a wheel step leaves the image point under the pointer where it is:
\* (px - panX) / zoom and (py - panY) / zoom are the same before and after
\* the step, also when the new zoom was clamped at 0.1 or at 10.
C21_WheelPivotInvariant ==
    [][mOp' = "wheel" =>
        /\ ImagePoint(mPtr'[1], panX', zoom') = ImagePoint(mPtr'[1], panX, zoom)
        /\ ImagePoint(mPtr'[2], panY', zoom') = ImagePoint(mPtr'[2], panY, zoom)
      ]_vars

\* A wheel step away from the origin, whose factor was cut by the clamp, on
\* a view that was translated and scaled before it.
C21_Witness ==
    /\ mOp = "wheel"
    /\ mPtr = <<400, 300>>
    /\ zoom = ZoomMin
    /\ mapImage # NoImage
    /\ panX # RInt(0)

\* a < b
RLt(a, b) == ~RLe(b, a)

\* C22: every marker is drawn at imgX = ((x + worldSize/2) / worldSize) *
\* imageW and imgY = ((worldSize/2 - z) / worldSize) * imageH, so of two
\* players the one with the larger z is drawn higher up (smaller imgY); for
\* worldSize 4000 the player at (0, 0) is drawn at the centre of the image
\* and the player at (-2000, 2000) at its corner (0, 0).
C22_WorldToImage ==
    (canvasRef /\ mapImage # NoImage) =>
        /\ Len(Markers) = Len(players)
        /\ \A i \in 1..Len(players) :
            LET x == players[i][1]
                z == players[i][2]
                m == Markers[i]
            IN  /\ RMul(m[1], RInt(2 * worldSize))
                     = RInt((2 * x + worldSize) * mapImage[1])
                /\ RMul(m[2], RInt(2 * worldSize))
                     = RInt((worldSize - 2 * z) * mapImage[2])
                /\ (worldSize = 4000 /\ x = 0 /\ z = 0) =>
                     m = << Rat(mapImage[1], 2), Rat(mapImage[2], 2) >>
                /\ (worldSize = 4000 /\ x = -2000 /\ z = 2000) =>
                     m = << RInt(0), RInt(0) >>
        /\ \A i, j \in 1..Len(players) :
            players[i][2] > players[j][2] => RLt(Markers[i][2], Markers[j][2])

\* The positions (0, 0) and (-2000, 2000) of a world of size 4000 have
\* been drawn over a loaded image.
C22_Witness ==
    /\ mOp = "positions"
    /\ worldSize = 4000
    /\ mapImage # NoImage
    /\ Len(Markers) = 2
    /\ players[1] = <<0, 0>>
    /\ players[2] = <<-2000, 2000>>

\* The view shows the whole image im centered in the surface sf at 0.95 of
\* the largest scale at which it fits: on each axis the scaled image lies
\* inside the surface with the same margin on both sides, and the scale is
\* min(sf[1]/im[1], sf[2]/im[2]) * 0.95.
Fitted(z, px, py, sf, im) ==
    LET w == RMul(RInt(im[1]), z)
        h == RMul(RInt(im[2]), z)
        sx == RMul(Rat(sf[1], im[1]), Rat(19, 20))
        sy == RMul(Rat(sf[2], im[2]), Rat(19, 20))
    IN  /\ RLe(z, sx) /\ RLe(z, sy) /\ z \in {sx, sy}
        /\ RLe(RInt(0), px) /\ RLe(RAdd(px, w), RInt(sf[1]))
        /\ RLe(RInt(0), py) /\ RLe(RAdd(py, h), RInt(sf[2]))
        /\ px = RSub(RInt(sf[1]), RAdd(px, w))
        /\ py = RSub(RInt(sf[2]), RAdd(py, h))

\* C23: fitToCanvas(), with a canvas and an image, sets zoom to
\* min(surfaceW/imageW, surfaceH/imageH) * 0.95 and the pan so that the
\* scaled image is centered: it lies inside the surface, margins equal.
C23_FitCentersImage ==
    [][(mOp' = "reset" /\ canvasRef /\ mapImage # NoImage) =>
          Fitted(zoom', panX', panY', container, mapImage)]_vars

\* resetView() on a loaded image after the container shrank, in the middle
\* of a drag.
C23_Witness ==
    /\ mOp = "reset"
    /\ canvasRef
    /\ mapImage = <<1600, 1600>>
    /\ container = <<400, 300>>
    /\ isDragging
    /\ Fitted(zoom, panX, panY, container, mapImage)

\* fitToCanvas() acts on a surface of 800x600 holding an image of 1600x1600.
FitScenario ==
    /\ mOp' = "reset"
    /\ canvasRef
    /\ container = <<800, 600>>
    /\ mapImage = <<1600, 1600>>

\* C24, as stated: for a surface of 800x600 and an image of 1600x1600 the
\* fit yields a scale of about 0.475, that is 800/1600 * 0.95 (here: within
\* 0.001 of it), and centers the image.
C24_FitScenarioWidth ==
    [][FitScenario =>
          /\ RLe(Rat(474, 1000), zoom') /\ RLe(zoom', Rat(476, 1000))
          /\ panX' = FitPan(800, 1600, zoom')
          /\ panY' = FitPan(600, 1600, zoom')]_vars

\* C24, amended: for a surface of 800x600 and an image of 1600x1600 the
\* fit yields the scale 0.35625, that is 600/1600 * 0.95, the smaller of
\* the two ratios, and centers the image at the translation (115, 15).
C24_FitScenarioHeight ==
    [][FitScenario =>
          /\ zoom' = Rat(35625, 100000)
          /\ panX' = RInt(115)
          /\ panY' = RInt(15)]_vars

\* The scenario has happened: the fit of a 1600x1600 image to 800x600.
C24_Witness ==
    /\ mOp = "reset"
    /\ canvasRef
    /\ container = <<800, 600>>
    /\ canvasSize = <<800, 600>>
    /\ mapImage = <<1600, 1600>>
    /\ RLt(zoom, RInt(1))

\* C25: the fit view is recomputed when the surface is resized: after a
\* resize of the window with a canvas and an image, zoom and pan are the
\* fit values for the new size of the surface.
C25_ResizeRefits ==
    [][(mOp' = "resize" /\ canvasRef /\ mapImage # NoImage) =>
          Fitted(zoom', panX', panY', container', mapImage)]_vars

\* C26: a move event within a drag that began at p0 with the translation t
\* sets the translation to t + (p - p0) on each axis, p the pointer of the
\* event, whatever moves came before it, unclamped, and leaves the scale
\* alone; a move event outside a drag changes nothing of the view.
C26_DragAddsDisplacement ==
    [][mOp' = "move" =>
        /\ zoom' = zoom
        /\ UNCHANGED <<isDragging, dragStartX, dragStartY, mapImage,
                       canvasSize, container, players, worldSize>>
        /\ IF isDragging
           THEN /\ panX' = RAdd(downAt.panX, RInt(mPtr'[1] - downAt.p[1]))
                /\ panY' = RAdd(downAt.panY, RInt(mPtr'[2] - downAt.p[2]))
           ELSE UNCHANGED <<panX, panY>>
      ]_vars

\* A drag from (400, 300) to (0, 0) has moved a fitted image to a negative
\* translation, off the surface.
C26_Witness ==
    /\ mOp = "move"
    /\ isDragging
    /\ downAt.p = <<400, 300>>
    /\ mPtr = <<0, 0>>
    /\ mapImage # NoImage
    /\ RLt(zoom, RInt(1))
    /\ RLt(panX, RInt(0))

\* ------------------------------------------------------------------------
\* Properties of the console page
\* ------------------------------------------------------------------------
\* Sockets of the page, not closed, whose onclose handler is attached.
CloseHandlers ==
    (IF cWs.st \in {"connecting", "open", "closing"} /\ cWs.onclose
     THEN 1 ELSE 0)
    + Cardinality({i \in 1..Len(cOld) : cOld[i].onclose})

\* Reconnect timeouts pending.
ReconnectsPending == cLeaked + (IF cTimer = "pending" THEN 1 ELSE 0)

\* At most one socket can arm a reconnect, at most one reconnect is
\* pending, and the connection of a mounted page is to the active server.
OneChannel ==
    /\ CloseHandlers <= 1
    /\ ReconnectsPending <= 1
    /\ (cPhase = "mounted" /\ cWs.st \in {"connecting", "open"}) =>
           cWs.target = activeServerId

\* A switch on a mounted page leaves the old connection closing, detached,
\* and no reconnect pending; the close of a superseded socket arms nothing;
\* a socket is only ever created to the server active at that moment.
Retargets ==
    /\ (cOp' = "switch" /\ cPhase = "mounted"
          /\ cWs.st \in {"connecting", "open"}) =>
           /\ cOld' = Append(cOld, [st |-> "closing", target |-> cWs.target,
                                    onclose |-> FALSE])
           /\ ReconnectsPending' = 0
    /\ cOp' = "oldClose" => UNCHANGED <<cTimer, cLeaked, cWs>>
    /\ (cWs' # cWs /\ cWs'.st = "connecting") =>
           /\ cWs'.target = activeServerId'
           /\ cWs'.target # NoServer

\* C27: in every state of the console page at most one WebSocket has a
\* close handler attached and at most one reconnect timer is pending;
\* switching the active server closes the old connection without arming a
\* reconnect for it, and every connection attempt, timer-driven ones
\* included, is to the server active when it is made.
C27_Retargeting == []OneChannel /\ [][Retargets]_vars

\* A switch on a mounted page has retired a live connection to the server
\* that was active before, and connects to the one that is active now.
C27_Witness ==
    /\ cOp = "switch"
    /\ cPhase = "mounted"
    /\ Len(cOld) = 1
    /\ cOld[1].target \in Servers \ {activeServerId}
    /\ cWs = [st |-> "connecting", target |-> activeServerId, onclose |-> TRUE]

\* A runServerCommand() while a command runs posts nothing and changes
\* nothing; a command that settles, either way, resets runningCommand.
CommandSteps ==
    /\ (cOp' = "run" /\ runningCommand # NULL) =>
           cSent' = NULL /\ UNCHANGED <<runningCommand, cmdOut>>
    /\ (cOp' = "run" /\ runningCommand = NULL) =>
           cSent' \in Endpoints /\ runningCommand' = cSent'
    /\ cOp' \in {"cmdDone", "cmdFailed"} => runningCommand' = NULL

\* C30: at most one server command request of the console page is
\* outstanding at any instant; runServerCommand invoked while a command is
\* running sends nothing; runningCommand is null again once the command
\* outstanding has completed, with a response or with an error.
C30_CommandSingleFlight ==
    /\ [](Len(cmdOut) <= 1 /\ (runningCommand = NULL <=> cmdOut = <<>>))
    /\ [][CommandSteps]_vars

\* runServerCommand() was invoked while "/start" was running, and posted
\* nothing.
C30_Witness ==
    /\ cOp = "run"
    /\ cSent = NULL
    /\ runningCommand = "/start"
    /\ cmdOut = << "/start" >>

\* ------------------------------------------------------------------------
\* Properties of useWebSocket: the connected flag
\* ------------------------------------------------------------------------
\* C28: connected is true exactly when the WebSocket the instance holds is
\* open; no event of a socket that was replaced or discarded makes the
\* flag disagree with the current connection.
C28_ConnectedAgrees == connected <=> ws = "open"

\* ------------------------------------------------------------------------
\* Properties of the home page
\* ------------------------------------------------------------------------
\* C29: a log-poll timer is armed only if the log panel is open (logTarget
\* is set) and the last provisioning status observed is neither 'ready'
\* nor 'error'.
C29_LogPollOnlyWhileNeeded ==
    logIntervals # {} =>
        logTarget # NULL /\ logStatus \notin {"ready", "error"}

=============================================================================
